---- MODULE Spec2Model ----
(***************************************************************************)
(* Model of pyautogui/_pyautogui_wayland.py: the libei (snegg) backend of  *)
(* PyAutoGUI.  The program state is the four module globals (_client,      *)
(* _pointer, _keyboard, _emulating); every backend function is one action. *)
(* The calls the program makes on the libei device objects are recorded,   *)
(* per operation, in `trace`.                                              *)
(***************************************************************************)
EXTENDS Integers, Sequences, FiniteSets, TLC

VARIABLES
    client,     \* _client: 0 is None, n > 0 is the n-th Sender created
    pointer,    \* _pointer: 0 is None, else the id of the bound device
    keyboard,   \* _keyboard: 0 is None, else the id of the bound device
    emulating,  \* _emulating
    sessions,   \* number of Sender objects created so far
    started,    \* device ids on which start_emulating() has been called
    held,       \* key codes pressed and not yet released on the keyboard
    trace,      \* device calls made by the last operation, in order
    outcome,    \* how the last operation ended: "ok" or the exception raised
    lastOp,     \* the last operation and its arguments
    pair        \* the key_down(k) ; key_up(k) pair in progress, if any

vars == <<client, pointer, keyboard, emulating, sessions, started, held,
          trace, outcome, lastOp, pair>>

----------------------------------------------------------------------------
(* Bounds of the model. *)

\* the screen is ScreenW x ScreenH; requested coordinates range one past it
ScreenW == 2
ScreenH == 2
\* scroll amounts range over -MaxClicks .. MaxClicks
MaxClicks == 2
\* the injected transport error hits one of the first MaxFault protocol calls
MaxFault == 9

----------------------------------------------------------------------------
(* Python values: a str, an int or None, as one record shape. *)

PyStr(s) == [t |-> "str", s |-> s, i |-> 0]
PyInt(i) == [t |-> "int", s |-> "", i |-> i]
PyNone == [t |-> "none", s |-> "", i |-> 0]

NoHandle == 0

OK == "ok"

----------------------------------------------------------------------------
(* The static tables. *)

LEFT == PyStr("left")
MIDDLE == PyStr("middle")
RIGHT == PyStr("right")

\* BUTTON_NAME_MAPPING = {LEFT: 1, MIDDLE: 2, RIGHT: 3, 1: 1, ..., 7: 7}
BUTTON_NAME_MAPPING ==
    (LEFT :> 1) @@ (MIDDLE :> 2) @@ (RIGHT :> 3)
        @@ [b \in {PyInt(i) : i \in 1..7} |-> b.i]

Lower == <<"a", "b", "c", "d", "e", "f", "g", "h", "i", "j", "k", "l", "m",
           "n", "o", "p", "q", "r", "s", "t", "u", "v", "w", "x", "y", "z">>
Upper == <<"A", "B", "C", "D", "E", "F", "G", "H", "I", "J", "K", "L", "M",
           "N", "O", "P", "Q", "R", "S", "T", "U", "V", "W", "X", "Y", "Z">>
Digits == <<"1", "2", "3", "4", "5", "6", "7", "8", "9", "0">>
FKeys == <<"f1", "f2", "f3", "f4", "f5", "f6", "f7", "f8", "f9", "f10", "f11",
           "f12", "f13", "f14", "f15", "f16", "f17", "f18", "f19", "f20",
           "f21", "f22", "f23", "f24">>
NumKeys == <<"num0", "num1", "num2", "num3", "num4", "num5", "num6", "num7",
             "num8", "num9">>

Range(q) == {q[i] : i \in 1..Len(q)}
\* enumerate(): the 0-based index of c in q
IndexOf(q, c) == (CHOOSE i \in 1..Len(q) : q[i] = c) - 1

\* pyautogui.KEY_NAMES: the key names the library knows ("fn", "help", ...
\* are names this backend leaves mapped to None)
KEY_NAMES ==
    Range(Lower) \cup Range(Upper) \cup Range(Digits) \cup Range(FKeys)
        \cup {"shift", "ctrl", "alt", "enter", "space", "fn", "help",
              "volumeup", "printscreen", "!", "_", "-"}

SpecialKeys ==
    [k \in Range(FKeys) |-> 58 + (IndexOf(FKeys, k) + 1)]
    @@ [k \in Range(NumKeys) |->
            IF IndexOf(NumKeys, k) > 0 THEN 96 + IndexOf(NumKeys, k) ELSE 82]
    @@ ("backspace" :> 14) @@ ("tab" :> 15) @@ ("\t" :> 15)
    @@ ("enter" :> 28) @@ ("return" :> 28) @@ ("\n" :> 28) @@ ("\r" :> 28)
    @@ ("shift" :> 42) @@ ("shiftleft" :> 42) @@ ("shiftright" :> 54)
    @@ ("ctrl" :> 29) @@ ("ctrlleft" :> 29) @@ ("ctrlright" :> 97)
    @@ ("alt" :> 56) @@ ("altleft" :> 56) @@ ("altright" :> 100)
    @@ ("pause" :> 119) @@ ("capslock" :> 58)
    @@ ("esc" :> 1) @@ ("escape" :> 1) @@ ("\\e" :> 1)
    @@ ("space" :> 57) @@ (" " :> 57)
    @@ ("pageup" :> 104) @@ ("pgup" :> 104)
    @@ ("pagedown" :> 109) @@ ("pgdn" :> 109)
    @@ ("end" :> 107) @@ ("home" :> 102)
    @@ ("left" :> 105) @@ ("up" :> 103) @@ ("right" :> 106) @@ ("down" :> 108)
    @@ ("insert" :> 110) @@ ("delete" :> 111) @@ ("del" :> 111)
    @@ ("numlock" :> 69) @@ ("scrolllock" :> 70)
    @@ ("win" :> 125) @@ ("winleft" :> 125) @@ ("winright" :> 126)
    @@ ("apps" :> 127)
    @@ ("multiply" :> 55) @@ ("add" :> 78) @@ ("separator" :> 83)
    @@ ("subtract" :> 74) @@ ("decimal" :> 83) @@ ("divide" :> 98)

CharMapping ==
    ("!" :> 2) @@ ("@" :> 3) @@ ("#" :> 4) @@ ("$" :> 5) @@ ("%" :> 6)
    @@ ("^" :> 7) @@ ("&" :> 8) @@ ("*" :> 9) @@ ("(" :> 10) @@ (")" :> 11)
    @@ ("-" :> 12) @@ ("_" :> 12) @@ ("=" :> 13) @@ ("+" :> 13)
    @@ ("[" :> 26) @@ ("{" :> 26) @@ ("]" :> 27) @@ ("}" :> 27)
    @@ ("\\" :> 43) @@ ("|" :> 43) @@ (";" :> 39) @@ (":" :> 39)
    @@ ("'" :> 40) @@ ("\"" :> 40) @@ ("~" :> 41)
    @@ ("," :> 51) @@ ("<" :> 51) @@ ("." :> 52) @@ (">" :> 52)
    @@ ("/" :> 53) @@ ("?" :> 53)

\* _build_keyboard_mapping().  The backspace character and the grave accent
\* have no TLA+ string literal: the entries of those two keys are left out
\* (the names "backspace" and "~" carry the same codes).  A later update overrides an earlier entry, so
\* the later table stands to the left of @@.  A value is PyInt(code) or PyNone.
PyCodes(f) == [k \in DOMAIN f |-> PyInt(f[k])]

keyboardMapping ==
    PyCodes(CharMapping)
    @@ PyCodes(SpecialKeys)
    @@ [c \in Range(Digits) |-> PyInt(2 + IndexOf(Digits, c))]
    @@ [c \in Range(Upper) |-> PyInt(30 + IndexOf(Upper, c))]
    @@ [c \in Range(Lower) |-> PyInt(30 + IndexOf(Lower, c))]
    @@ [k \in KEY_NAMES |-> PyNone]

KEY_LEFTSHIFT == 42

\* pyautogui.isShiftCharacter(key)
ShiftPunctuation ==
    {"~", "!", "@", "#", "$", "%", "^", "&", "*", "(", ")", "_", "+", "{",
     "}", "|", ":", "\"", "<", ">", "?"}

isShiftCharacter(key) ==
    key.t = "str" /\ (key.s \in Range(Upper) \/ key.s \in ShiftPunctuation)

\* `key not in keyboardMapping or keyboardMapping[key] is None`
Unmapped(key) ==
    \/ key.t # "str"
    \/ key.s \notin DOMAIN keyboardMapping
    \/ keyboardMapping[key.s] = PyNone

----------------------------------------------------------------------------
(* One run of a backend function.  A run record carries the globals, the   *)
(* device calls made so far, the pending exception and the position of the *)
(* protocol call that the transport makes fail (0: none).  A call made on  *)
(* a run that already raised does nothing: the exception has unwound the   *)
(* function.                                                               *)

Begin(fail) ==
    [client |-> client, pointer |-> pointer, keyboard |-> keyboard,
     emulating |-> emulating, sessions |-> sessions, started |-> started,
     held |-> held, calls |-> <<>>, exc |-> OK, n |-> 0, fail |-> fail]

\* a call into snegg/libei: the fail-th one of the run raises
Proto(r) ==
    IF r.exc # OK THEN r
    ELSE IF r.n + 1 = r.fail
         THEN [r EXCEPT !.n = @ + 1, !.exc = "TransportError"]
         ELSE [r EXCEPT !.n = @ + 1]

Entry(dev, call, x, y, val, press, emu) ==
    [dev |-> dev, call |-> call, x |-> x, y |-> y, val |-> val,
     press |-> press, emu |-> emu]

\* dev.call(...): on None the attribute lookup raises before any call is made
DevCall(r, dev, call, x, y, val, press) ==
    IF r.exc # OK THEN r
    ELSE IF dev = NoHandle THEN [r EXCEPT !.exc = "AttributeError"]
    ELSE LET p == Proto(r) IN
         IF p.exc # OK THEN p
         ELSE [p EXCEPT
                 !.calls = Append(@, Entry(dev, call, x, y, val, press,
                                           dev \in r.started)),
                 !.started = IF call = "start_emulating"
                             THEN @ \cup {dev} ELSE @,
                 !.held = IF call = "keyboard_key"
                          THEN (IF press THEN @ \cup {val.i} ELSE @ \ {val.i})
                          ELSE @]

pointer_motion_absolute(r, x, y) ==
    DevCall(r, r.pointer, "pointer_motion_absolute", x, y, PyNone, FALSE)
button_button(r, button, isPress) ==
    DevCall(r, r.pointer, "button_button", 0, 0, button, isPress)
scroll_delta(r, dx, dy) ==
    DevCall(r, r.pointer, "scroll_delta", dx, dy, PyNone, FALSE)
scroll_discrete(r, dx, dy) ==
    DevCall(r, r.pointer, "scroll_discrete", dx, dy, PyNone, FALSE)
\* scroll_stop(x, y) takes two booleans, written 0 / 1
scroll_stop(r, sx, sy) ==
    DevCall(r, r.pointer, "scroll_stop", sx, sy, PyNone, FALSE)
pointer_frame(r) ==
    DevCall(r, r.pointer, "frame", 0, 0, PyNone, FALSE)
keyboard_key(r, code, isPress) ==
    DevCall(r, r.keyboard, "keyboard_key", 0, 0, PyInt(code), isPress)
keyboard_frame(r) ==
    DevCall(r, r.keyboard, "frame", 0, 0, PyNone, FALSE)

----------------------------------------------------------------------------
(* The server's side of the handshake: whether the events of the first     *)
(* dispatch() hold a SEAT_ADDED, and the DEVICE_ADDED devices of the       *)
(* second, each with its id and capabilities.                              *)

Device(id, caps) == [id |-> id, caps |-> caps]

ServerReplies ==
    {[seat |-> FALSE, devices |-> <<>>],
     [seat |-> TRUE, devices |-> <<>>],
     [seat |-> TRUE, devices |-> <<Device(1, {"POINTER", "KEYBOARD"})>>],
     [seat |-> TRUE, devices |-> <<Device(1, {"POINTER"}),
                                   Device(2, {"KEYBOARD"})>>],
     [seat |-> TRUE, devices |-> <<Device(1, {"POINTER"})>>],
     [seat |-> TRUE, devices |-> <<Device(2, {"KEYBOARD"})>>]}

\* the loop over the DEVICE_ADDED events: a later device replaces an earlier
RECURSIVE AddDevices(_, _)
AddDevices(r, devs) ==
    IF devs = <<>> THEN r
    ELSE LET d == Head(devs)
             r1 == IF "POINTER" \in d.caps
                   THEN [r EXCEPT !.pointer = d.id] ELSE r
             r2 == IF "KEYBOARD" \in d.caps
                   THEN [r1 EXCEPT !.keyboard = d.id] ELSE r1
         IN AddDevices(r2, Tail(devs))

\* a connection made on every call, whether or not a client exists
_ensure_connected_always(r, srv) ==
    IF r.exc # OK THEN r
    ELSE LET c == Proto(r)
             r1 == IF c.exc # OK THEN c
                   ELSE [c EXCEPT !.client = c.sessions + 1,
                                  !.sessions = @ + 1]
             r2 == Proto(r1)
             r3 == IF srv.seat THEN Proto(r2) ELSE r2
             r4 == Proto(r3)
         IN IF r4.exc # OK THEN r4 ELSE AddDevices(r4, srv.devices)

_ensure_connected(r, srv) ==
    IF r.exc # OK \/ r.client # NoHandle THEN r
    ELSE LET c == Proto(r)                            \* create_for_socket
             r1 == IF c.exc # OK THEN c
                   ELSE [c EXCEPT !.client = c.sessions + 1,
                                  !.sessions = @ + 1]
             r2 == Proto(r1)                          \* dispatch
             r3 == IF srv.seat THEN Proto(r2) ELSE r2 \* seat.bind
             r4 == Proto(r3)                          \* dispatch
         IN IF r4.exc # OK THEN r4 ELSE AddDevices(r4, srv.devices)

_start_emulating(r) ==
    IF r.exc # OK \/ r.emulating THEN r
    ELSE LET r1 == IF r.pointer # NoHandle
                   THEN DevCall(r, r.pointer, "start_emulating", 0, 0,
                                PyNone, FALSE)
                   ELSE r
             r2 == IF r1.keyboard # NoHandle
                   THEN DevCall(r1, r1.keyboard, "start_emulating", 0, 0,
                                PyNone, FALSE)
                   ELSE r1
         IN IF r2.exc # OK THEN r2 ELSE [r2 EXCEPT !.emulating = TRUE]

----------------------------------------------------------------------------
(* The backend functions. *)

_moveTo(r, srv, x, y) ==
    pointer_frame(
        pointer_motion_absolute(_start_emulating(_ensure_connected(r, srv)),
                                x, y))

_mouseDown(r, srv, x, y, button) ==
    pointer_frame(
        button_button(
            pointer_motion_absolute(
                _start_emulating(_ensure_connected(r, srv)), x, y),
            button, TRUE))

_mouseUp(r, srv, x, y, button) ==
    pointer_frame(
        button_button(
            pointer_motion_absolute(_ensure_connected(r, srv), x, y),
            button, FALSE))

\* a click that hands the button argument on untranslated
_click_untranslated(r, srv, x, y, button, optimized) ==
    IF button \notin DOMAIN BUTTON_NAME_MAPPING
    THEN [r EXCEPT !.exc = IF optimized THEN "KeyError"
                           ELSE "AssertionError"]
    ELSE _mouseUp(_mouseDown(r, srv, x, y, button), srv, x, y, button)

\* with assertions compiled out (python -O) the table lookup raises instead
_click(r, srv, x, y, button, optimized) ==
    IF button \notin DOMAIN BUTTON_NAME_MAPPING
    THEN [r EXCEPT !.exc = IF optimized THEN "KeyError"
                           ELSE "AssertionError"]
    ELSE LET code == PyInt(BUTTON_NAME_MAPPING[button])
         IN _mouseUp(_mouseDown(r, srv, x, y, code), srv, x, y, code)

\* the body of `for _ in range(k)` in _vscroll and _hscroll
RECURSIVE ScrollSteps(_, _, _, _)
ScrollSteps(r, k, dx, dy) ==
    IF k = 0 THEN r
    ELSE ScrollSteps(
             pointer_frame(scroll_discrete(scroll_delta(r, dx, dy), dx, dy)),
             k - 1, dx, dy)

Abs(n) == IF n < 0 THEN -n ELSE n

\* `if x is None or y is None: x, y = _position()`
ScrollAt(x, y, pos) ==
    IF x = PyNone \/ y = PyNone THEN pos ELSE <<x.i, y.i>>

\* a vertical scroll with the sign of the direction the X11 way round
_vscroll_flipped(r, srv, clicks, x, y, pos) ==
    IF clicks = 0 THEN r
    ELSE LET at == ScrollAt(x, y, pos)
             direction == IF clicks > 0 THEN 1 ELSE -1
             r1 == pointer_motion_absolute(
                       _start_emulating(_ensure_connected(r, srv)),
                       at[1], at[2])
         IN pointer_frame(
                scroll_stop(ScrollSteps(r1, Abs(clicks), 0, direction), 0, 1))

_vscroll(r, srv, clicks, x, y, pos) ==
    IF clicks = 0 THEN r
    ELSE LET at == ScrollAt(x, y, pos)
             direction == IF clicks > 0 THEN -1 ELSE 1
             r1 == pointer_motion_absolute(
                       _start_emulating(_ensure_connected(r, srv)),
                       at[1], at[2])
         IN pointer_frame(
                scroll_stop(ScrollSteps(r1, Abs(clicks), 0, direction), 0, 1))

_hscroll(r, srv, clicks, x, y, pos) ==
    IF clicks = 0 THEN r
    ELSE LET at == ScrollAt(x, y, pos)
             direction == IF clicks > 0 THEN 1 ELSE -1
             r1 == pointer_motion_absolute(
                       _start_emulating(_ensure_connected(r, srv)),
                       at[1], at[2])
         IN pointer_frame(
                scroll_stop(ScrollSteps(r1, Abs(clicks), direction, 0), 1, 0))

\* the `isinstance(key, int)` branch is kept although no int is a key of
\* keyboardMapping, so that the first test returns for every int
_keyDown(r, srv, key) ==
    IF Unmapped(key) THEN r
    ELSE LET r1 == _start_emulating(_ensure_connected(r, srv))
             r2 == IF isShiftCharacter(key)
                   THEN keyboard_frame(keyboard_key(r1, KEY_LEFTSHIFT, TRUE))
                   ELSE r1
         IN IF key.t = "int"
            THEN keyboard_frame(keyboard_key(r1, key.i, TRUE))
            ELSE keyboard_frame(
                     keyboard_key(r2, keyboardMapping[key.s].i, TRUE))

\* a key release that lets go of shift before the base key
_keyUp_shift_first(r, srv, key) ==
    IF Unmapped(key) THEN r
    ELSE LET r1 == _ensure_connected(r, srv)
             r2 == IF isShiftCharacter(key)
                   THEN keyboard_frame(keyboard_key(r1, KEY_LEFTSHIFT, FALSE))
                   ELSE r1
         IN keyboard_frame(keyboard_key(r2, keyboardMapping[key.s].i, FALSE))

_keyUp(r, srv, key) ==
    IF Unmapped(key) THEN r
    ELSE LET r1 == _ensure_connected(r, srv)
             r2 == keyboard_frame(
                       keyboard_key(r1, keyboardMapping[key.s].i, FALSE))
         IN IF key.t = "int"
            THEN keyboard_frame(keyboard_key(r1, key.i, FALSE))
            ELSE IF isShiftCharacter(key)
            THEN keyboard_frame(keyboard_key(r2, KEY_LEFTSHIFT, FALSE))
            ELSE r2

----------------------------------------------------------------------------
(* The external tools. *)

\* _size(): the resolution xrandr reports
_size == <<ScreenW, ScreenH>>

\* _position(): what xdotool reports, a point of the screen (here its far
\* corner), or (0, 0) when the tool fails; the program keeps no position of
\* its own
PositionResults == {<<0, 0>>, <<ScreenW - 1, ScreenH - 1>>}

----------------------------------------------------------------------------
(* The inputs of the operations. *)

Coords == ((-1)..ScreenW) \X ((-1)..ScreenH)
ButtonPoints == {<<0, 0>>, <<ScreenW, -1>>}
ValidButtons == DOMAIN BUTTON_NAME_MAPPING
Buttons == ValidButtons \cup {PyInt(0), PyInt(8), PyStr("bogus")}
ScrollTargets ==
    {<<PyNone, PyNone>>, <<PyInt(0), PyNone>>, <<PyInt(1), PyInt(0)>>}
Keys == {PyStr("a"), PyStr("A"), PyStr("shift"), PyStr("1"), PyStr("!"),
         PyStr("fn"), PyStr("nosuchkey"), PyInt(30)}

\* the inputs of the specification with a reliable transport ...
Reliable ==
    [faults |-> {0}, coords |-> Coords, points |-> ButtonPoints,
     buttons |-> Buttons, clicks |-> (-MaxClicks)..MaxClicks,
     targets |-> ScrollTargets, keys |-> Keys]

\* ... and of the one whose transport may fail any one protocol call
Faulty ==
    [faults |-> 0..MaxFault, coords |-> ButtonPoints, points |-> {<<0, 0>>},
     buttons |-> {LEFT, PyInt(8)}, clicks |-> {-1, 0, 1},
     targets |-> {<<PyNone, PyNone>>}, keys |-> {PyStr("A"), PyStr("fn")}]

\* the handshake is read only by a run that starts with no client
Replies == IF client = NoHandle THEN ServerReplies
           ELSE {[seat |-> FALSE, devices |-> <<>>]}

\* whether assertions are compiled out is read only for an unknown button
Builds(b) == IF b \in ValidButtons THEN {FALSE} ELSE BOOLEAN

\* _position() is called only by a scroll that moves and lacks x or y
Positions(n, t) == IF n # 0 /\ (t[1] = PyNone \/ t[2] = PyNone)
                   THEN PositionResults ELSE {<<0, 0>>}

----------------------------------------------------------------------------
(* The state machine. *)

NoPair == [stage |-> "none", key |-> PyNone, heldPre |-> {}]
\* `after` is read for position() only: the operation it follows
NoAfter == [name |-> "none", x |-> PyNone, y |-> PyNone]

Op(name, x, y, button, key, clicks) ==
    [name |-> name, x |-> x, y |-> y, button |-> button, key |-> key,
     clicks |-> clicks, after |-> NoAfter]

NoOp == Op("none", PyNone, PyNone, PyNone, PyNone, 0)

Init ==
    /\ client = NoHandle
    /\ pointer = NoHandle
    /\ keyboard = NoHandle
    /\ emulating = FALSE
    /\ sessions = 0
    /\ started = {}
    /\ held = {}
    /\ trace = <<>>
    /\ outcome = OK
    /\ lastOp = NoOp
    /\ pair = NoPair

\* the run's globals become the program's, its calls the operation's trace
Return(r, op) ==
    /\ client' = r.client
    /\ pointer' = r.pointer
    /\ keyboard' = r.keyboard
    /\ emulating' = r.emulating
    /\ sessions' = r.sessions
    /\ started' = r.started
    /\ held' = r.held
    /\ trace' = r.calls
    /\ outcome' = r.exc
    /\ lastOp' = op

MoveTo(in) ==
    \E f \in in.faults, srv \in Replies, p \in in.coords :
        /\ Return(_moveTo(Begin(f), srv, p[1], p[2]),
                  Op("moveTo", PyInt(p[1]), PyInt(p[2]), PyNone, PyNone, 0))
        /\ pair' = NoPair

MouseDown(in) ==
    \E f \in in.faults, srv \in Replies, p \in in.points, b \in in.buttons :
        /\ Return(_mouseDown(Begin(f), srv, p[1], p[2], b),
                  Op("mouseDown", PyInt(p[1]), PyInt(p[2]), b, PyNone, 0))
        /\ pair' = NoPair

MouseUp(in) ==
    \E f \in in.faults, srv \in Replies, p \in in.points, b \in in.buttons :
        /\ Return(_mouseUp(Begin(f), srv, p[1], p[2], b),
                  Op("mouseUp", PyInt(p[1]), PyInt(p[2]), b, PyNone, 0))
        /\ pair' = NoPair

Click(in) ==
    \E f \in in.faults, srv \in Replies, p \in in.points, b \in in.buttons :
      \E optimized \in Builds(b) :
        /\ Return(_click(Begin(f), srv, p[1], p[2], b, optimized),
                  Op("click", PyInt(p[1]), PyInt(p[2]), b, PyNone, 0))
        /\ pair' = NoPair

VScroll(in) ==
    \E f \in in.faults, srv \in Replies, n \in in.clicks, t \in in.targets :
      \E pos \in Positions(n, t) :
        /\ Return(_vscroll(Begin(f), srv, n, t[1], t[2], pos),
                  Op("vscroll", t[1], t[2], PyNone, PyNone, n))
        /\ pair' = NoPair

HScroll(in) ==
    \E f \in in.faults, srv \in Replies, n \in in.clicks, t \in in.targets :
      \E pos \in Positions(n, t) :
        /\ Return(_hscroll(Begin(f), srv, n, t[1], t[2], pos),
                  Op("hscroll", t[1], t[2], PyNone, PyNone, n))
        /\ pair' = NoPair

\* position(): no protocol call, no change of the globals
Position ==
    \E pos \in PositionResults :
        /\ Return(Begin(0),
                  [Op("position", PyInt(pos[1]), PyInt(pos[2]), PyNone,
                      PyNone, 0)
                   EXCEPT !.after = IF outcome = OK
                                    THEN [name |-> lastOp.name,
                                          x |-> lastOp.x, y |-> lastOp.y]
                                    ELSE NoAfter])
        /\ pair' = NoPair

KeyDown(in) ==
    \E f \in in.faults, srv \in Replies, k \in in.keys :
        LET r == _keyDown(Begin(f), srv, k) IN
        /\ Return(r, Op("keyDown", PyNone, PyNone, PyNone, k, 0))
        /\ pair' = IF r.exc = OK /\ ~Unmapped(k)
                   THEN [stage |-> "down", key |-> k, heldPre |-> held]
                   ELSE NoPair

KeyUp(in) ==
    \E f \in in.faults, srv \in Replies, k \in in.keys :
        LET r == _keyUp(Begin(f), srv, k) IN
        /\ Return(r, Op("keyUp", PyNone, PyNone, PyNone, k, 0))
        /\ pair' = IF r.exc = OK /\ pair.stage = "down" /\ pair.key = k
                   THEN [pair EXCEPT !.stage = "up"]
                   ELSE NoPair

Next ==
    \/ MoveTo(Reliable)
    \/ MouseDown(Reliable)
    \/ MouseUp(Reliable)
    \/ Click(Reliable)
    \/ VScroll(Reliable)
    \/ HScroll(Reliable)
    \/ Position
    \/ KeyDown(Reliable)
    \/ KeyUp(Reliable)

Spec == Init /\ [][Next]_vars

NextFault ==
    \/ MoveTo(Faulty)
    \/ MouseDown(Faulty)
    \/ MouseUp(Faulty)
    \/ Click(Faulty)
    \/ VScroll(Faulty)
    \/ HScroll(Faulty)
    \/ Position
    \/ KeyDown(Faulty)
    \/ KeyUp(Faulty)

SpecFault == Init /\ [][NextFault]_vars

----------------------------------------------------------------------------
(* What the properties read off a trace. *)

\* start_emulating() opens the device; every other call sends an event
IsEvent(e) == e.call # "start_emulating"
Events(q) == SelectSeq(q, IsEvent)

\* an event as the device receives it
Ev(dev, call, x, y, val, press) ==
    [dev |-> dev, call |-> call, x |-> x, y |-> y, val |-> val,
     press |-> press]
Sent(q) ==
    [i \in 1..Len(q) |->
        Ev(q[i].dev, q[i].call, q[i].x, q[i].y, q[i].val, q[i].press)]

Motion(dev, x, y) == Ev(dev, "pointer_motion_absolute", x, y, PyNone, FALSE)
Button(dev, b, press) == Ev(dev, "button_button", 0, 0, b, press)
Frame(dev) == Ev(dev, "frame", 0, 0, PyNone, FALSE)
Key(dev, code, press) == Ev(dev, "keyboard_key", 0, 0, PyInt(code), press)

Raised == outcome # OK

----------------------------------------------------------------------------
(* C1: for every button value outside {left, middle, right, 1..7}, each of *)
(* click, mouse_down and mouse_up fails and sends no event to the pointer  *)
(* device.  (Any exception is taken for the failure.)                      *)
C1_InvalidButtonRejected ==
    (/\ lastOp.name \in {"click", "mouseDown", "mouseUp"}
     /\ lastOp.button \notin ValidButtons)
        => (Raised /\ Events(trace) = <<>>)

(* C2: for every valid button b, every button event that mouse_down or     *)
(* mouse_up sends carries the code BUTTON_NAME_MAPPING[b], never the name.  *)
C2_ButtonCodeSent ==
    (/\ lastOp.name \in {"mouseDown", "mouseUp"}
     /\ lastOp.button \in ValidButtons)
        => \A i \in 1..Len(trace) :
              trace[i].call = "button_button"
                  => trace[i].val = PyInt(BUTTON_NAME_MAPPING[lastOp.button])

(* C3: for every valid button, click(x, y, button) sends exactly a motion, *)
(* a press of the resolved code and a frame, then a motion, a release of   *)
(* the same code and a frame, all on the pointer device; with no pointer   *)
(* device bound it sends nothing, as mouse_down and mouse_up do.           *)
C3_ClickIsDownThenUp ==
    (lastOp.name = "click" /\ lastOp.button \in ValidButtons)
        => LET c == PyInt(BUTTON_NAME_MAPPING[lastOp.button])
               x == lastOp.x.i
               y == lastOp.y.i
           IN IF pointer # NoHandle
              THEN /\ outcome = OK
                   /\ Sent(Events(trace)) =
                         <<Motion(pointer, x, y), Button(pointer, c, TRUE),
                           Frame(pointer),
                           Motion(pointer, x, y), Button(pointer, c, FALSE),
                           Frame(pointer)>>
              ELSE Raised /\ Events(trace) = <<>>

C3_Witness ==
    /\ lastOp.name = "click"
    /\ lastOp.button = LEFT
    /\ outcome = OK
    /\ Len(Events(trace)) = 6

(* C4: for every non-zero n, scroll_vertical(n) and scroll_horizontal(n),  *)
(* after the motion to the scroll position, send |n| times a scroll delta, *)
(* a discrete scroll step in the direction of the sign of n (vertical: -1, *)
(* up, for n > 0 and 1, down, for n < 0; horizontal: 1 for n > 0, -1 for   *)
(* n < 0) and a frame, and then one scroll stop on that axis and a frame.  *)
C4_ScrollSteps ==
    (/\ lastOp.name \in {"vscroll", "hscroll"}
     /\ lastOp.clicks # 0
     /\ pointer # NoHandle)
        => LET ev == Sent(Events(trace))
               n == Abs(lastOp.clicks)
               vertical == lastOp.name = "vscroll"
               dx == IF vertical THEN 0
                     ELSE IF lastOp.clicks > 0 THEN 1 ELSE -1
               dy == IF ~vertical THEN 0
                     ELSE IF lastOp.clicks > 0 THEN -1 ELSE 1
               Step(call) == Ev(pointer, call, dx, dy, PyNone, FALSE)
               Stop == Ev(pointer, "scroll_stop",
                          IF vertical THEN 0 ELSE 1,
                          IF vertical THEN 1 ELSE 0, PyNone, FALSE)
           IN /\ outcome = OK
              /\ Len(ev) = 3 * n + 3
              /\ ev[1].call = "pointer_motion_absolute"
              /\ \A k \in 0..(n - 1) :
                    /\ ev[3 * k + 2] = Step("scroll_delta")
                    /\ ev[3 * k + 3] = Step("scroll_discrete")
                    /\ ev[3 * k + 4] = Frame(pointer)
              /\ ev[3 * n + 2] = Stop
              /\ ev[3 * n + 3] = Frame(pointer)
              /\ Cardinality({i \in 1..Len(ev) :
                                 ev[i].call = "scroll_discrete"}) = n
              /\ Cardinality({i \in 1..Len(ev) :
                                 ev[i].call = "scroll_stop"}) = 1

C4_Witness ==
    /\ lastOp.name = "vscroll"
    /\ lastOp.clicks = -MaxClicks
    /\ outcome = OK
    /\ Len(Events(trace)) = 3 * MaxClicks + 3

C6_ConnectOnce ==
    [][/\ sessions' <= 1
       /\ client # NoHandle
            => (client' = client /\ pointer' = pointer
                /\ keyboard' = keyboard)]_vars

\* a second operation on a bound pointer: it sends its events and nothing
\* of the handshake or of start_emulating
C6_Witness ==
    /\ sessions = 1
    /\ pointer # NoHandle
    /\ lastOp.name = "moveTo"
    /\ outcome = OK
    /\ Len(trace) = 2

(* C7: a transport-level error raised by a protocol call inside an emitter *)
(* operation never propagates to the caller.                               *)
C7_TransportErrorSwallowed ==
    lastOp.name \in {"moveTo", "mouseDown", "mouseUp", "click", "vscroll",
                     "hscroll", "keyDown", "keyUp"}
        => outcome # "TransportError"

(* C8: the motion event of move_to(x, y) carries (x, y) clamped to         *)
(* [0, width-1] x [0, height-1], and position() after move_to(x, y)        *)
(* returns that clamped point.                                             *)
Clamp(v, n) == IF v < 0 THEN 0 ELSE IF v > n - 1 THEN n - 1 ELSE v

C8_MoveToClamps ==
    /\ (lastOp.name = "moveTo" /\ outcome = OK)
          => \A i \in 1..Len(trace) :
                trace[i].call = "pointer_motion_absolute"
                    => /\ trace[i].x = Clamp(lastOp.x.i, _size[1])
                       /\ trace[i].y = Clamp(lastOp.y.i, _size[2])
    /\ (lastOp.name = "position" /\ lastOp.after.name = "moveTo")
          => /\ lastOp.x.i = Clamp(lastOp.after.x.i, _size[1])
             /\ lastOp.y.i = Clamp(lastOp.after.y.i, _size[2])

(* C9: no event is sent on a device before start_emulating() has been      *)
(* called on that device.                                                  *)
C9_NoEventBeforeStart ==
    \A i \in 1..Len(trace) : IsEvent(trace[i]) => trace[i].emu

(* C10: key_down(k) followed by key_up(k) leaves the set of held keys as   *)
(* it was before the pair, here for the held sets in which k's own key is  *)
(* not already down (a left shift held before the pair among them).        *)
C10_PairKeepsHeld ==
    (pair.stage = "up" /\ keyboardMapping[pair.key.s].i \notin pair.heldPre)
        => held = pair.heldPre

====
